---- MODULE Spec2Model ----
(***************************************************************************)
(* Model of recommender_system.py: the RecommenderSystem class (load,      *)
(* label encoding, product feature table, cosine similarity matrix,        *)
(* recommend_products, recommend_products_for_customer) and the Streamlit  *)
(* script around it, which Streamlit runs from top to bottom once when the *)
(* session opens and again on every widget interaction.                    *)
(*                                                                         *)
(* Numbers.  Min-max scaled values are kept as exact fractions             *)
(* <<x - min, max - min>>; a zero denominator is the 0/0 that pandas       *)
(* yields as NaN.  All feature components are non-negative, so a cosine    *)
(* similarity s is non-negative and is kept as the exact fraction          *)
(* <<num, den>> of its square: s = 0 iff num = 0, s = 1 iff num = den, and *)
(* s1 <= s2 iff num1 * den2 <= num2 * den1.  Floating point rounding is    *)
(* not modelled.                                                           *)
(***************************************************************************)
EXTENDS Integers, Sequences, FiniteSets

\* ------------------------------------------------------------------ bounds
MaxRows == 3        \* rows of the CSV file
MaxN == 2           \* num_recommendations of a direct call
MaxLoads == 3       \* script runs of one session

\* num_recommendations=5, the default the Streamlit script relies on
DefaultN == 5

\* ------------------------------------------------------ the dataset on disk
\* Values of the categorical columns in the order LabelEncoder sorts them.
CityOrder == <<"Delhi", "Mumbai">>
AgeGroupOrder == <<"18-25", "26-35">>
CategoryOrder == <<"Dairy", "Fruits", "Snacks">>

\* The six numeric product attributes, by position:
\* Price, Competitor_Price, Ad_Click_Through_Rate, Browsing_Time_mins,
\* Voice_Search_Count, Visual_Search_Count
NumericColumns == 1..6

Row(c, city, age, p, cat, num, complete) ==
    [Customer_ID |-> c, City |-> city, Age_Group |-> age, Product_ID |-> p,
     Product_Category |-> cat, Num |-> num, complete |-> complete]

\* The rows a file is made of; complete = FALSE is a row with a missing value.
\* P1 occurs with two different sets of attributes.
CsvRows ==
    { Row("ZP_CUST4000", "Mumbai", "18-25", "P1", "Dairy", <<1, 1, 1, 1, 1, 1>>, TRUE),
      Row("ZP_CUST4000", "Mumbai", "18-25", "P2", "Fruits", <<3, 3, 3, 3, 3, 3>>, TRUE),
      Row("ZP_CUST4001", "Delhi", "26-35", "P2", "Fruits", <<3, 3, 3, 3, 3, 3>>, TRUE),
      Row("ZP_CUST4001", "Delhi", "26-35", "P3", "Snacks", <<2, 3, 1, 2, 3, 2>>, TRUE),
      Row("ZP_CUST4001", "Delhi", "26-35", "P1", "Dairy", <<3, 1, 3, 1, 3, 1>>, TRUE),
      Row("ZP_CUST4001", "Delhi", "26-35", "P3", "Snacks", <<2, 3, 1, 2, 3, 2>>, FALSE) }

CsvFiles == UNION { [1..n -> CsvRows] : n \in 1..MaxRows }

ProductIds == { r.Product_ID : r \in CsvRows }

\* What the user can type into the text box; "ZP_CUST9999" is in no file.
CustomerInputs == { "ZP_CUST4000", "ZP_CUST4001", "ZP_CUST9999" }

\* ------------------------------------------------------------ __init__
\* pd.read_csv followed by dropna(inplace=True)
ReadCsvDropNa(file) == SelectSeq(file, LAMBDA r : r.complete)

Column(rows, col) == { rows[i][col] : i \in DOMAIN rows }

\* LabelEncoder.fit: classes_ are the distinct values, sorted
Fit(order, values) == SelectSeq(order, LAMBDA v : v \in values)

\* LabelEncoder.transform: the position of the value in classes_, from 0
Transform(classes, v) == (CHOOSE i \in DOMAIN classes : classes[i] = v) - 1

\* LabelEncoder.inverse_transform
InverseTransform(classes, code) == classes[code + 1]

\* label_encoders after _encode_features
LabelEncoders(rows) ==
    [City |-> Fit(CityOrder, Column(rows, "City")),
     Product_Category |-> Fit(CategoryOrder, Column(rows, "Product_Category")),
     Age_Group |-> Fit(AgeGroupOrder, Column(rows, "Age_Group"))]

\* df after _encode_features
EncodeFeatures(rows) ==
    LET le == LabelEncoders(rows)
    IN  [i \in DOMAIN rows |->
            [Customer_ID |-> rows[i].Customer_ID,
             Product_ID |-> rows[i].Product_ID,
             City |-> Transform(le.City, rows[i].City),
             Age_Group |-> Transform(le.Age_Group, rows[i].Age_Group),
             Product_Category |-> Transform(le.Product_Category, rows[i].Product_Category),
             Num |-> rows[i].Num]]

\* DataFrame.drop_duplicates(): a row equal in every column to an earlier one goes
DropDuplicates(s) ==
    LET F[i \in 0..Len(s)] ==
            IF i = 0 THEN <<>>
            ELSE IF \E j \in 1..(i - 1) : s[j] = s[i] THEN F[i - 1]
                 ELSE Append(F[i - 1], s[i])
    IN  F[Len(s)]

\* df[[Product_ID, Product_Category, six numeric columns]]
ProductColumns(rows) ==
    [i \in DOMAIN rows |->
        [Product_ID |-> rows[i].Product_ID,
         Product_Category |-> rows[i].Product_Category,
         Num |-> rows[i].Num]]

Min(S) == CHOOSE x \in S : \A y \in S : x <= y
Max(S) == CHOOSE x \in S : \A y \in S : x >= y

\* lambda x: (x - x.min()) / (x.max() - x.min()), as the fraction <<num, den>>
MinMax(x, col) == <<x - Min(col), Max(col) - Min(col)>>

\* _create_product_features: the rows in order, indexed by Product_ID
CreateProductFeatures(rows) ==
    LET pf == DropDuplicates(ProductColumns(rows))
        col(k) == { pf[i].Num[k] : i \in DOMAIN pf }
    IN  [i \in DOMAIN pf |->
            [Product_ID |-> pf[i].Product_ID,
             Product_Category |-> pf[i].Product_Category,
             Num |-> [k \in NumericColumns |-> MinMax(pf[i].Num[k], col(k))]]]

\* ------------------------------------------------------ cosine_similarity
IsNaN(q) == q[2] = 0

\* check_array in cosine_similarity rejects an empty table and any NaN (ValueError)
Rejected(pf) ==
    \/ Len(pf) = 0
    \/ \E i \in DOMAIN pf : \E k \in NumericColumns : IsNaN(pf[i].Num[k])

Lcm(a, b) ==
    CHOOSE l \in 1..(a * b) :
        /\ l % a = 0
        /\ l % b = 0
        /\ \A m \in 1..(l - 1) : ~(m % a = 0 /\ m % b = 0)

\* common denominator of the six scaled columns (every row of a column has the same)
CommonDen(pf) ==
    LET d(k) == pf[1].Num[k][2]
        L[k \in 0..6] == IF k = 0 THEN 1 ELSE Lcm(L[k - 1], d(k))
    IN  L[6]

\* a row of product_features as an integer vector: the row times D = CommonDen
FeatureVector(row, D) ==
    LET v(k) == row.Num[k][1] * (D \div row.Num[k][2])
    IN  <<row.Product_Category * D, v(1), v(2), v(3), v(4), v(5), v(6)>>

Dot(a, b) ==
    a[1] * b[1] + a[2] * b[2] + a[3] * b[3] + a[4] * b[4]
        + a[5] * b[5] + a[6] * b[6] + a[7] * b[7]

\* sklearn normalize(): a zero norm is replaced by 1 before dividing (squared here)
NormOrOne(a) == IF Dot(a, a) = 0 THEN 1 ELSE Dot(a, a)

\* CosineSim dividing by the norm of the row vector alone
CosineSimRowNorm(a, b) == <<Dot(a, b) * Dot(a, b), NormOrOne(a) * NormOrOne(a)>>

\* one entry of normalize(X) @ normalize(X).T, as the fraction of its square
CosineSim(a, b) == <<Dot(a, b) * Dot(a, b), NormOrOne(a) * NormOrOne(b)>>

\* _calculate_similarity: DataFrame with index = columns = product_features.index
CalculateSimilarity(pf) ==
    LET D == CommonDen(pf)
    IN  [index |-> [i \in DOMAIN pf |-> pf[i].Product_ID],
         values |-> [i \in DOMAIN pf |-> [j \in DOMAIN pf |->
                        CosineSim(FeatureVector(pf[i], D), FeatureVector(pf[j], D))]]]

\* everything __init__ leaves behind; status "error" when line 20 raises
Construct(file) ==
    LET rows == ReadCsvDropNa(file)
        enc == EncodeFeatures(rows)
        pf == CreateProductFeatures(enc)
    IN  [df |-> enc,
         label_encoders |-> LabelEncoders(rows),
         product_features |-> pf,
         status |-> IF Rejected(pf) THEN "error" ELSE "ready",
         product_similarity_df |->
            IF Rejected(pf) THEN [index |-> <<>>, values |-> <<>>]
            ELSE CalculateSimilarity(pf)]

\* ------------------------------------------------------ recommend_products
\* s1 >= s2 on similarities kept as fractions
Geq(s1, s2) == s1[1] * s2[2] >= s2[1] * s1[2]

Orders(n) == { o \in [1..n -> 1..n] : \A a, b \in 1..n : a # b => o[a] # o[b] }

\* sort_values(ascending=False) on column j: every descending order of the row
\* positions; the default sort is not stable, so equal values come in any order
SortValuesDescending(sim, j) ==
    { o \in Orders(Len(sim.index)) :
        \A a, b \in 1..Len(sim.index) :
            a < b => Geq(sim.values[o[a]][j], sim.values[o[b]][j]) }

\* .head(k).index.tolist()
HeadIndex(sim, o, k) ==
    [a \in 1..(IF k < Len(o) THEN k ELSE Len(o)) |-> sim.index[o[a]]]

\* list.remove(x): drops the first occurrence of x
Remove(list, x) ==
    LET at == Min({ a \in DOMAIN list : list[a] = x })
    IN  [a \in 1..(Len(list) - 1) |-> IF a < at THEN list[a] ELSE list[a + 1]]

InList(list, x) == \E a \in DOMAIN list : list[a] = x

\* the possible results of recommend_products(product_id, n): raised = TRUE is an
\* exception (sort_values on the DataFrame that a repeated column label selects,
\* or list.remove of a value that is not in the list)
RecommendProducts(sim, product_id, n) ==
    LET cols == { j \in DOMAIN sim.index : sim.index[j] = product_id }
    IN  IF Cardinality(cols) # 1
        THEN { [raised |-> TRUE, list |-> <<>>] }
        ELSE LET j == CHOOSE c \in cols : TRUE
             IN  { LET similar_products == HeadIndex(sim, o, n + 1)
                   IN  IF InList(similar_products, product_id)
                       THEN [raised |-> FALSE, list |-> Remove(similar_products, product_id)]
                       ELSE [raised |-> TRUE, list |-> <<>>]
                   : o \in SortValuesDescending(sim, j) }

\* ---------------------------------------- recommend_products_for_customer
Range(list) == { list[a] : a \in DOMAIN list }

\* CustomerData without the comparison: every row is taken for the customer's
CustomerDataUnfiltered(rows, customer_id) == rows

\* self.df[self.df['Customer_ID'] == customer_id]
CustomerData(rows, customer_id) == SelectSeq(rows, LAMBDA r : r.Customer_ID = customer_id)

\* list(recommended_products)[:n]: a set is listed in any order
ListOfSetHead(S, n) ==
    LET len == IF n < Cardinality(S) THEN n ELSE Cardinality(S)
    IN  { l \in [1..len -> S] : \A a, b \in 1..len : a # b => l[a] # l[b] }

\* drop_duplicates(subset=['Product_ID']): the first row of each Product_ID stays
DropDuplicatesByProduct(s) ==
    LET F[i \in 0..Len(s)] ==
            IF i = 0 THEN <<>>
            ELSE IF \E j \in 1..(i - 1) : s[j].Product_ID = s[i].Product_ID THEN F[i - 1]
                 ELSE Append(F[i - 1], s[i])
    IN  F[Len(s)]

\* lines 57-58: the decoded categories of the recommended products, in df order
RecommendedProductCategories(r, recommended_products) ==
    LET rows == DropDuplicatesByProduct(
                    SelectSeq(r.df, LAMBDA x : x.Product_ID \in Range(recommended_products)))
    IN  [a \in DOMAIN rows |->
            InverseTransform(r.label_encoders.Product_Category, rows[a].Product_Category)]

NoAnswer == [raised |-> FALSE, recs |-> <<>>, cats |-> <<>>, city |-> "", age |-> ""]

\* the possible results of recommend_products_for_customer(customer_id, n)
RecommendProductsForCustomer(r, customer_id, n) ==
    LET customer_data == CustomerData(r.df, customer_id)
    IN  IF Len(customer_data) = 0
        THEN { [raised |-> FALSE, recs |-> <<>>, cats |-> <<>>,
                city |-> "Unknown", age |-> "Unknown"] }
        ELSE
        LET customer_city ==
                InverseTransform(r.label_encoders.City, customer_data[1].City)
            customer_age_group ==
                InverseTransform(r.label_encoders.Age_Group, customer_data[1].Age_Group)
            \* lines 52-54: the set after the first i rows of customer_data, for every
            \* way the calls can come out; an exception ends the loop
            loop[i \in 0..Len(customer_data)] ==
                IF i = 0 THEN { [raised |-> FALSE, set |-> {}] }
                ELSE LET outs == RecommendProducts(r.product_similarity_df,
                                                   customer_data[i].Product_ID, n)
                     IN  { IF acc.raised \/ out.raised
                           THEN [raised |-> TRUE, set |-> {}]
                           ELSE [raised |-> FALSE, set |-> acc.set \cup Range(out.list)]
                           : acc \in loop[i - 1], out \in outs }
        IN  UNION {
              IF run.raised
              THEN { [NoAnswer EXCEPT !.raised = TRUE] }
              ELSE { [raised |-> FALSE,
                      recs |-> l,
                      cats |-> RecommendedProductCategories(r, l),
                      city |-> customer_city,
                      age |-> customer_age_group]
                     : l \in ListOfSetHead(run.set, n) }
              : run \in loop[Len(customer_data)] }

\* --------------------------------------------------------- Streamlit app
\* zip(customer_recommendations, product_categories)
Zip(a, b) ==
    [i \in 1..(IF Len(a) < Len(b) THEN Len(a) ELSE Len(b)) |-> <<a[i], b[i]>>]

Blank == [kind |-> "none", city |-> "", age |-> "", lines |-> <<>>]

\* lines 70-83: what the page shows below the button
Page(pressed, ans) ==
    IF ~pressed THEN Blank
    ELSE IF ans.raised THEN [Blank EXCEPT !.kind = "exception"]
    ELSE IF Len(ans.recs) = 0 THEN [Blank EXCEPT !.kind = "warning"]
    ELSE [kind |-> "details", city |-> ans.city, age |-> ans.age,
          lines |-> Zip(ans.recs, ans.cats)]

VARIABLES
    csv,            \* the dataset file
    recommender,    \* the RecommenderSystem object of the latest script run
    loads,          \* how many times the script has built a RecommenderSystem
    customer_id,    \* the text box
    display,        \* the page below the button
    last            \* the latest method call: its arguments and what it returned

vars == <<csv, recommender, loads, customer_id, display, last>>

NoCall == [op |-> "none", arg |-> "", n |-> 0, raised |-> FALSE, list |-> <<>>,
           ans |-> NoAnswer]

\* the session opens: first run of the script, default text, button not pressed
Init ==
    /\ csv \in CsvFiles
    /\ recommender = Construct(csv)
    /\ loads = 1
    /\ customer_id = "ZP_CUST4000"
    /\ display = IF recommender.status = "error"
                 THEN [Blank EXCEPT !.kind = "exception"] ELSE Blank
    /\ last = NoCall

\* one run of the script, lines 63-83; the widgets exist only if line 66 returned
ScriptRun(text, pressed) ==
    /\ recommender.status = "ready"
    /\ loads < MaxLoads
    /\ loads' = loads + 1
    /\ recommender' = Construct(csv)
    /\ customer_id' = text
    /\ IF pressed
       THEN \E ans \in RecommendProductsForCustomer(recommender', text, DefaultN) :
                /\ last' = [NoCall EXCEPT !.op = "button", !.arg = text, !.n = DefaultN,
                                          !.raised = ans.raised, !.ans = ans]
                /\ display' = Page(TRUE, ans)
       ELSE /\ last' = NoCall
            /\ display' = Page(FALSE, NoAnswer)
    /\ UNCHANGED csv

\* the user edits the text box: Streamlit reruns the script
EditCustomerId ==
    \E text \in CustomerInputs :
        /\ text # customer_id
        /\ ScriptRun(text, FALSE)

\* the user presses "Get Recommendations": Streamlit reruns the script
PressGetRecommendations ==
    \E text \in { customer_id } : ScriptRun(text, TRUE)

\* a call of recommender.recommend_products(product_id, n)
CallRecommendProducts ==
    \E product_id \in ProductIds, n \in 0..MaxN :
        /\ recommender.status = "ready"
        /\ InList(recommender.product_similarity_df.index, product_id)
        /\ \E out \in RecommendProducts(recommender.product_similarity_df, product_id, n) :
              last' = [NoCall EXCEPT !.op = "recommend_products", !.arg = product_id,
                                     !.n = n, !.raised = out.raised, !.list = out.list]
        /\ UNCHANGED <<csv, recommender, loads, customer_id, display>>

\* a call of recommender.recommend_products_for_customer(c, n)
CallRecommendProductsForCustomer ==
    \E c \in CustomerInputs, n \in 0..MaxN :
        /\ recommender.status = "ready"
        /\ \E ans \in RecommendProductsForCustomer(recommender, c, n) :
              last' = [NoCall EXCEPT !.op = "recommend_products_for_customer", !.arg = c,
                                     !.n = n, !.raised = ans.raised, !.ans = ans]
        /\ UNCHANGED <<csv, recommender, loads, customer_id, display>>

\* The Streamlit session: the script runs again on every interaction.
Next ==
    \/ EditCustomerId
    \/ PressGetRecommendations

Spec == Init /\ [][Next]_vars

\* The methods called directly on the object the first script run built.
CallNext ==
    \/ CallRecommendProducts
    \/ CallRecommendProductsForCustomer

CallSpec == Init /\ [][CallNext]_vars

\* ================================================================ claims
Ready == recommender.status = "ready"

Sim == recommender.product_similarity_df

\* equality and order of two similarities kept as fractions
SameValue(s1, s2) == s1[1] * s2[2] = s2[1] * s1[2]

\* the row of the product in the similarity matrix (the label occurs once)
RowOf(p) == CHOOSE i \in DOMAIN Sim.index : Sim.index[i] = p

SimilarityOf(p, q) == Sim.values[RowOf(q)][RowOf(p)]

Distinct(list) == \A a, b \in DOMAIN list : a # b => list[a] # list[b]

\* the category name the dataset gives a product
CategoryOf(p) ==
    LET i == Min({ k \in DOMAIN recommender.df : recommender.df[k].Product_ID = p })
    IN  InverseTransform(recommender.label_encoders.Product_Category,
                         recommender.df[i].Product_Category)

InDataset(c) == \E i \in DOMAIN recommender.df : recommender.df[i].Customer_ID = c

Purchased(c) ==
    { recommender.df[i].Product_ID :
        i \in { k \in DOMAIN recommender.df : recommender.df[k].Customer_ID = c } }

\* C1: recommend_products(p, n) for a product p of the catalog and n >= 0 completes
\* and returns a list that does not contain p.
C1_CompletesWithoutSelf ==
    last.op = "recommend_products" =>
        /\ ~last.raised
        /\ ~InList(last.list, last.arg)

\* C2: for a customer identifier that is in no row of the loaded dataset,
\* recommend_products_for_customer returns ([], [], "Unknown", "Unknown") and the
\* page shows the warning, no customer details and no product line.
C2_UnknownCustomer ==
    (last.op = "button" /\ ~InDataset(last.arg)) =>
        /\ last.ans = [raised |-> FALSE, recs |-> <<>>, cats |-> <<>>,
                       city |-> "Unknown", age |-> "Unknown"]
        /\ display = [kind |-> "warning", city |-> "", age |-> "", lines |-> <<>>]

C2_Witness ==
    /\ last.op = "button"
    /\ last.arg = "ZP_CUST9999"
    /\ ~InDataset(last.arg)
    /\ Len(recommender.df) > 1
    /\ display.kind = "warning"

\* C3: every diagonal entry of the similarity matrix equals 1.
C3_DiagonalIsOne ==
    Ready => \A i \in DOMAIN Sim.index : SameValue(Sim.values[i][i], <<1, 1>>)

\* C4: the similarity matrix is symmetric: the entry of (a, b) equals the entry of
\* (b, a) for all rows a and b.
C4_Symmetric ==
    Ready => \A i, j \in DOMAIN Sim.index : SameValue(Sim.values[i][j], Sim.values[j][i])

C4_Witness ==
    /\ Ready
    /\ \E i, j \in DOMAIN Sim.index :
          /\ i # j
          /\ Sim.values[i][j][1] > 0
          /\ ~SameValue(Sim.values[i][j], <<1, 1>>)

\* C5: every component of every product feature vector given to the similarity
\* computation lies in [0, 1]: Product_Category and the six numeric attributes.
C5_FeaturesInUnitInterval ==
    Ready =>
        \A i \in DOMAIN recommender.product_features :
            LET row == recommender.product_features[i]
            IN  /\ 0 <= row.Product_Category
                /\ row.Product_Category <= 1
                /\ \A k \in NumericColumns :
                      /\ row.Num[k][2] > 0
                      /\ 0 <= row.Num[k][1]
                      /\ row.Num[k][1] <= row.Num[k][2]

\* C6: product_features has exactly one row per distinct Product_ID of the dataset.
C6_OneRowPerProduct ==
    LET pf == recommender.product_features
    IN  /\ \A i, j \in DOMAIN pf : pf[i].Product_ID = pf[j].Product_ID => i = j
        /\ { pf[i].Product_ID : i \in DOMAIN pf }
              = { recommender.df[i].Product_ID : i \in DOMAIN recommender.df }

\* C7: recommend_products(p, n) returns the top n: exactly min(n, catalog size - 1)
\* distinct products, in order of non-increasing similarity to p, and no product
\* other than p that is left out is strictly more similar to p than one in the list.
C7_TopN ==
    last.op = "recommend_products" =>
        /\ ~last.raised
        /\ Len(last.list) = Min({ last.n, Len(Sim.index) - 1 })
        /\ Distinct(last.list)
        /\ \A a, b \in DOMAIN last.list :
              a < b => Geq(SimilarityOf(last.arg, last.list[a]),
                           SimilarityOf(last.arg, last.list[b]))
        /\ \A q \in Range(Sim.index) \ (Range(last.list) \cup { last.arg }) :
              \A a \in DOMAIN last.list :
                  Geq(SimilarityOf(last.arg, last.list[a]), SimilarityOf(last.arg, q))

\* C8: for a known customer the product list and the category list have the same
\* length and every line of the page pairs a product with that product's category.
C8_CategoriesAligned ==
    display.kind = "details" =>
        /\ Len(last.ans.recs) = Len(last.ans.cats)
        /\ Len(display.lines) = Len(last.ans.recs)
        /\ \A a \in DOMAIN display.lines :
              display.lines[a] = <<last.ans.recs[a], CategoryOf(last.ans.recs[a])>>

\* C9: what recommend_products_for_customer returns for a known customer has at most
\* num_recommendations products and none of them is a product of that customer's rows.
C9_ExcludesPurchased ==
    (last.op = "recommend_products_for_customer" /\ InDataset(last.arg) /\ ~last.raised) =>
        /\ Len(last.ans.recs) <= last.n
        /\ Range(last.ans.recs) \cap Purchased(last.arg) = {}

\* C10: within a session no interaction loads the dataset or computes the
\* similarity matrix again, and none changes the dataset, the product feature
\* table or the similarity matrix.
C10_LoadedOnce == [][loads' = loads /\ recommender' = recommender]_vars

====
